---- MODULE Spec2Model ----
(***************************************************************************)
(* Masterpack / carton optimiser: the inner-pack solver (solver/innerPack), *)
(* the palletizer (solver/palletizer), the interlocking check of the        *)
(* multi-SKU optimiser and the first-generation solver of                   *)
(* algorithms/masterpackOptimizer.js.                                       *)
(*                                                                         *)
(* Lengths are integers (one unit = one inch).  Every quotient the code     *)
(* forms in floating point (utilization, coverage, scores, the compression  *)
(* factor 1 - squish) is kept as an exact fraction [n, d] in lowest terms;  *)
(* d = 0 stands for the NaN of 0/0.                                         *)
(***************************************************************************)
EXTENDS Integers, Sequences, FiniteSets, TLC

(***************************************************************************)
(* Bounds of the explored inputs.                                          *)
(***************************************************************************)
MaxUnit == 2          \* unit extents 1..MaxUnit
MaxExt == 3           \* external container extents 1..MaxExt
MaxWall == 1          \* wall thickness 0..MaxWall
MaxCase == 3          \* case footprint extents 1..MaxCase
MaxCaseH == 2         \* case height 1..MaxCaseH
MaxPallet == 5        \* pallet footprint extents 1..MaxPallet
MaxBase == 1          \* pallet base height 0..MaxBase
MaxOverhang == 2      \* max_overhang_in 0..MaxOverhang
MaxHeight == 4        \* target pallet height 0..MaxHeight
MaxCatalog == 2       \* catalogs of 1..MaxCatalog products
MaxSweep == 3         \* swept extents 1..MaxSweep
MaxCount == 13        \* scored counts 1..MaxCount
MaxSkus == 3          \* products the App lists for selection

(***************************************************************************)
(* Exact fractions.                                                        *)
(***************************************************************************)
Abs(x) == IF x < 0 THEN -x ELSE x

RECURSIVE Gcd(_, _)
Gcd(a, b) == IF b = 0 THEN a ELSE Gcd(b, a % b)

NaN == [n |-> 0, d |-> 0]

Rat(n, d) ==
  IF d = 0 THEN NaN
  ELSE LET g == Gcd(Abs(n), Abs(d))
           s == IF d < 0 THEN -1 ELSE 1
       IN  [n |-> s * (n \div g), d |-> s * (d \div g)]

IsNaN(a) == a.d = 0
RatInt(k) == [n |-> k, d |-> 1]
\* sums and comparisons over the least common denominator, products cross-reduced
RatAdd(a, b) ==
  IF IsNaN(a) \/ IsNaN(b) THEN NaN
  ELSE LET g == Gcd(a.d, b.d)
       IN  Rat(a.n * (b.d \div g) + b.n * (a.d \div g), (a.d \div g) * b.d)
RatSub(a, b) == RatAdd(a, [n |-> -b.n, d |-> b.d])
RatMul(a, b) ==
  IF IsNaN(a) \/ IsNaN(b) THEN NaN
  ELSE LET g1 == Gcd(Abs(a.n), b.d)
           g2 == Gcd(Abs(b.n), a.d)
       IN  Rat((a.n \div g1) * (b.n \div g2), (a.d \div g2) * (b.d \div g1))
\* every comparison with NaN is false, as in IEEE arithmetic
RatLess(a, b) ==
  /\ ~IsNaN(a) /\ ~IsNaN(b)
  /\ LET g == Gcd(a.d, b.d) IN a.n * (b.d \div g) < b.n * (a.d \div g)
RatLeq(a, b) ==
  /\ ~IsNaN(a) /\ ~IsNaN(b)
  /\ LET g == Gcd(a.d, b.d) IN a.n * (b.d \div g) <= b.n * (a.d \div g)
\* Math.floor of the quotient of an integer by a positive fraction
FloorDiv(k, a) == (k * a.d) \div a.n

Min3(a, b, c) == IF a <= b /\ a <= c THEN a ELSE IF b <= c THEN b ELSE c

(***************************************************************************)
(* solver/innerPack                                                        *)
(***************************************************************************)
calculateInternalDims(externalDims, wallThickness) ==
  [L |-> externalDims.L - 2 * wallThickness,
   W |-> externalDims.W - 2 * wallThickness,
   H |-> externalDims.H - 2 * wallThickness]

\* a rotation names, for the container axes L, W, H in turn, the unit axis laid along it
rotations ==
  << <<"L", "W", "H">>, <<"L", "H", "W">>, <<"W", "L", "H">>,
     <<"W", "H", "L">>, <<"H", "L", "W">>, <<"H", "W", "L">> >>

\* the slip of counting with the uncompressed extents
tryRotationCountsUncompressed(unitDims, internalDims, rotation, squishPct) ==
  LET rotated == [L |-> unitDims[rotation[1]],
                  W |-> unitDims[rotation[2]],
                  H |-> unitDims[rotation[3]]]
      adjusted == [L |-> RatMul(RatInt(rotated.L), RatSub(RatInt(1), squishPct.x)),
                   W |-> RatMul(RatInt(rotated.W), RatSub(RatInt(1), squishPct.y)),
                   H |-> RatMul(RatInt(rotated.H), RatSub(RatInt(1), squishPct.z))]
      nx == internalDims.L \div rotated.L
      ny == internalDims.W \div rotated.W
      nz == internalDims.H \div rotated.H
      count == nx * ny * nz
      usedVolume == RatMul(RatInt(count), RatMul(adjusted.L, RatMul(adjusted.W, adjusted.H)))
      availableVolume == internalDims.L * internalDims.W * internalDims.H
      utilization == IF availableVolume = 0 THEN NaN
                     ELSE RatMul(usedVolume, Rat(1, availableVolume))
  IN  [rotation |-> rotation, nx |-> nx, ny |-> ny, nz |-> nz, count |-> count,
       utilization |-> utilization, rotatedDims |-> rotated, adjustedDims |-> adjusted]

tryRotation(unitDims, internalDims, rotation, squishPct) ==
  LET rotated == [L |-> unitDims[rotation[1]],
                  W |-> unitDims[rotation[2]],
                  H |-> unitDims[rotation[3]]]
      adjusted == [L |-> RatMul(RatInt(rotated.L), RatSub(RatInt(1), squishPct.x)),
                   W |-> RatMul(RatInt(rotated.W), RatSub(RatInt(1), squishPct.y)),
                   H |-> RatMul(RatInt(rotated.H), RatSub(RatInt(1), squishPct.z))]
      nx == FloorDiv(internalDims.L, adjusted.L)
      ny == FloorDiv(internalDims.W, adjusted.W)
      nz == FloorDiv(internalDims.H, adjusted.H)
      count == nx * ny * nz
      usedVolume == RatMul(RatInt(count), RatMul(adjusted.L, RatMul(adjusted.W, adjusted.H)))
      availableVolume == internalDims.L * internalDims.W * internalDims.H
      utilization == IF availableVolume = 0 THEN NaN
                     ELSE RatMul(usedVolume, Rat(1, availableVolume))
  IN  [rotation |-> rotation, nx |-> nx, ny |-> ny, nz |-> nz, count |-> count,
       utilization |-> utilization, rotatedDims |-> rotated, adjustedDims |-> adjusted]

\* a value of config.json: a number, or an array of numbers
Number(v) == [type |-> "number", value |-> v]
Array(items) == [type |-> "array", items |-> items]

\* the number an operand of % is converted to: an array converts through its
\* string form, so [] is 0, [n] is n and a longer array is NaN
ToNumber(v) ==
  IF v.type = "number" THEN RatInt(v.value)
  ELSE IF Len(v.items) = 0 THEN RatInt(0)
  ELSE IF Len(v.items) = 1 THEN RatInt(v.items[1])
  ELSE NaN

\* count % m for count > 0 and an integer or NaN m (x % 0 and x % NaN are NaN)
Remainder(count, m) ==
  IF IsNaN(m) \/ m.n = 0 THEN NaN ELSE RatInt(count % Abs(m.n))

\* the slip of leaving the multiples term out of the score
scoreArrangementNoMultiples(arrangement, preferMultiplesOf) ==
  RatSub(RatMul(arrangement.utilization, RatInt(500)), Rat(arrangement.nz, 10))

scoreArrangement(arrangement, preferMultiplesOf) ==
  LET count == arrangement.count
      isPreferredMultiple == Remainder(count, ToNumber(preferMultiplesOf)) = RatInt(0)
      distanceToMultiple == Remainder(count, ToNumber(preferMultiplesOf))
      multiple == IF isPreferredMultiple THEN RatInt(1000)
                  ELSE RatMul(RatSub(ToNumber(preferMultiplesOf), distanceToMultiple),
                              RatInt(10))
  IN  RatSub(RatAdd(multiple, RatMul(arrangement.utilization, RatInt(500))),
             Rat(arrangement.nz, 10))

Max3(a, b, c) == IF a >= b /\ a >= c THEN a ELSE IF b >= c THEN b ELSE c

\* the slip of returning the list without the fallback
findFailingAxisNoFallback(unitDims, internalDims) ==
  LET axes == <<"L", "W", "H">>
      minUnitDim == Min3(unitDims.L, unitDims.W, unitDims.H)
  IN  SelectSeq(axes, LAMBDA axis : minUnitDim > internalDims[axis])

\* the slip of comparing the unit's largest extent
findFailingAxisLargest(unitDims, internalDims) ==
  LET axes == <<"L", "W", "H">>
      maxUnitDim == Max3(unitDims.L, unitDims.W, unitDims.H)
      failing == SelectSeq(axes, LAMBDA axis : maxUnitDim > internalDims[axis])
  IN  IF Len(failing) > 0 THEN failing ELSE <<"all">>

findFailingAxis(unitDims, internalDims) ==
  LET axes == <<"L", "W", "H">>
      minUnitDim == Min3(unitDims.L, unitDims.W, unitDims.H)
      failing == SelectSeq(axes, LAMBDA axis : minUnitDim > internalDims[axis])
  IN  IF Len(failing) > 0 THEN failing ELSE <<"all">>

\* Array.prototype.sort with the comparator (a, b) => b.score - a.score: a stable
\* sort, descending by score (a NaN difference compares as equal)
\* the slip of an unstable sort that moves a later equal score to the front
RECURSIVE InsertByScoreLastWins(_, _)
InsertByScoreLastWins(sorted, a) ==
  IF sorted = << >> THEN <<a>>
  ELSE LET last == sorted[Len(sorted)]
       IN  IF RatLeq(last.score, a.score)
           THEN Append(InsertByScoreLastWins(SubSeq(sorted, 1, Len(sorted) - 1), a), last)
           ELSE Append(sorted, a)

RECURSIVE InsertByScore(_, _)
InsertByScore(sorted, a) ==
  IF sorted = << >> THEN <<a>>
  ELSE LET last == sorted[Len(sorted)]
       IN  IF RatLess(last.score, a.score)
           THEN Append(InsertByScore(SubSeq(sorted, 1, Len(sorted) - 1), a), last)
           ELSE Append(sorted, a)

RECURSIVE SortByScore(_)
SortByScore(s) ==
  IF s = << >> THEN << >>
  ELSE InsertByScore(SortByScore(SubSeq(s, 1, Len(s) - 1)), s[Len(s)])

\* the slip of filtering with count > 1
ValidArrangementsAboveOne(arrangements) == SelectSeq(arrangements, LAMBDA a : a.count > 1)

ValidArrangements(arrangements) == SelectSeq(arrangements, LAMBDA a : a.count > 0)

findBestArrangement(sku, cfg) ==
  LET masterpack == cfg.masterpack
      solver == cfg.solver
      internalDims == calculateInternalDims(masterpack.external, masterpack.wall_thickness_in)
      unitDims == [L |-> sku.L, W |-> sku.W, H |-> sku.H]
      arrangements == [i \in 1..Len(rotations) |->
                         tryRotation(unitDims, internalDims, rotations[i], solver.squish_pct)]
      \* the result for scoredArrangements[0] (top)
      fitted(top) ==
        LET best == top.arr
            \* weights in ounces: unitWeightLb = oz / 16
            totalProductWeightOz == best.count * sku.oz
            grossCaseWeightOz == totalProductWeightOz + 16 * masterpack.tare_lb
        IN  [fits |-> TRUE, rotation |-> best.rotation,
             nx |-> best.nx, ny |-> best.ny, nz |-> best.nz, count |-> best.count,
             utilization |-> best.utilization, rotatedDims |-> best.rotatedDims,
             adjustedDims |-> best.adjustedDims, score |-> top.score,
             grossCaseWeightOz |-> grossCaseWeightOz,
             isLowDensity |-> best.count < 20,
             isHeavy |-> grossCaseWeightOz > 40 * 16,
             internalDims |-> internalDims]
      \* the result for the arrangements that passed the filter
      resultFor(validArrangements) ==
        IF Len(validArrangements) = 0
        THEN [fits |-> FALSE, failingAxis |-> findFailingAxis(unitDims, internalDims)]
        ELSE LET scoredArrangements ==
                   [i \in 1..Len(validArrangements) |->
                      [arr |-> validArrangements[i],
                       score |-> scoreArrangement(validArrangements[i],
                                                  solver.prefer_multiples_of)]]
             IN  CHOOSE result \in {fitted(top) : top \in {SortByScore(scoredArrangements)[1]}}
                   : TRUE
  IN  CHOOSE result \in
        {resultFor(validArrangements) : validArrangements \in {ValidArrangements(arrangements)}}
        : TRUE

(***************************************************************************)
(* solver/palletizer                                                       *)
(***************************************************************************)
\* the slip of a strict comparison with the limit
overhangValidStrict(option, maxOverhang) ==
  option.overhangW < maxOverhang /\ option.overhangL < maxOverhang

\* option.overhangW <= maxOverhang && option.overhangL <= maxOverhang
overhangValid(option, maxOverhang) ==
  option.overhangW <= maxOverhang /\ option.overhangL <= maxOverhang

\* the slip of a reversed comparison of the counts
lowerCount(option1, option2) ==
  IF option1.wide * option1.long <= option2.wide * option2.long THEN option1 ELSE option2

\* option1Count >= option2Count ? option1 : option2
higherCount(option1, option2) ==
  IF option1.wide * option1.long >= option2.wide * option2.long THEN option1 ELSE option2

calculateColumnPattern(caseDims, palletDims, maxOverhang) ==
  LET caseL == caseDims.L
      caseW == caseDims.W
      palletL == palletDims.L
      palletW == palletDims.W
      option1 == [wide |-> palletW \div caseW,
                  long |-> palletL \div caseL,
                  overhangW |-> palletW - (palletW \div caseW) * caseW,
                  overhangL |-> palletL - (palletL \div caseL) * caseL]
      option2 == [wide |-> palletW \div caseL,
                  long |-> palletL \div caseW,
                  overhangW |-> palletW - (palletW \div caseL) * caseL,
                  overhangL |-> palletL - (palletL \div caseW) * caseW]
      option1Valid == overhangValid(option1, maxOverhang)
      option2Valid == overhangValid(option2, maxOverhang)
  IN  IF option1Valid /\ option2Valid
      THEN higherCount(option1, option2)
      ELSE IF option1Valid THEN option1
      ELSE IF option2Valid THEN option2
      ELSE higherCount(option1, option2) @@ [exceedsOverhang |-> TRUE]

\* the slip of a brick layer that always keeps the unrotated orientation
calculateBrickPatternUnrotated(caseDims, palletDims, maxOverhang) ==
  [wide |-> palletDims.W \div caseDims.W,
   long |-> palletDims.L \div caseDims.L,
   overhangW |-> palletDims.W - (palletDims.W \div caseDims.W) * caseDims.W,
   overhangL |-> palletDims.L - (palletDims.L \div caseDims.L) * caseDims.L]

calculateBrickPattern(caseDims, palletDims, maxOverhang) ==
  calculateColumnPattern(caseDims, palletDims, maxOverhang)

calculatePinwheelPattern(caseDims, palletDims, maxOverhang) ==
  calculateColumnPattern(caseDims, palletDims, maxOverhang)

calculateSwap4048Pattern(caseDims, palletDims, maxOverhang) ==
  calculateColumnPattern(caseDims, palletDims, maxOverhang)

Patterns == {"column", "brick", "pinwheel", "swap-40-48"}

\* the slip of stacking into the whole target height, pallet included
layersIgnoringBase(caseDims, pallet, targetHeight) == targetHeight \div caseDims.H

\* Math.floor((targetHeight - pallet.H) / caseDims.H)
layersThatFit(caseDims, pallet, targetHeight) ==
  LET availableHeight == targetHeight - pallet.H
  IN  availableHeight \div caseDims.H

calculatePalletStacking(caseDims, palletConfig, targetHeight, pattern) ==
  LET pallet == palletConfig.pallet
      maxOverhang == palletConfig.solver.max_overhang_in
      layerResult ==
        CASE pattern = "brick" -> calculateBrickPattern(caseDims, pallet, maxOverhang)
          [] pattern = "pinwheel" -> calculatePinwheelPattern(caseDims, pallet, maxOverhang)
          [] pattern = "swap-40-48" -> calculateSwap4048Pattern(caseDims, pallet, maxOverhang)
          [] OTHER -> calculateColumnPattern(caseDims, pallet, maxOverhang)
      casesPerLayer == layerResult.wide * layerResult.long
      maxLayers == layersThatFit(caseDims, pallet, targetHeight)
      totalCases == casesPerLayer * maxLayers
      actualPalletHeight == pallet.H + maxLayers * caseDims.H
      palletArea == pallet.L * pallet.W
      usedArea == (layerResult.wide * caseDims.W) * (layerResult.long * caseDims.L)
  IN  [pattern |-> pattern,
       casesWide |-> layerResult.wide,
       casesLong |-> layerResult.long,
       casesPerLayer |-> casesPerLayer,
       maxLayers |-> maxLayers,
       totalCases |-> totalCases,
       palletHeight |-> actualPalletHeight,
       coverage |-> Rat(usedArea, palletArea),
       overhangW |-> layerResult.overhangW,
       overhangL |-> layerResult.overhangL,
       exceedsOverhang |-> IF "exceedsOverhang" \in DOMAIN layerResult
                           THEN layerResult.exceedsOverhang ELSE FALSE]

(***************************************************************************)
(* solver/multiSkuOptimizer: the interlocking check                        *)
(***************************************************************************)
\* the slip of accepting one fitting layer
interlocksEither(layer1Count, layer2Count) == layer1Count > 0 \/ layer2Count > 0

\* both layers must fit at least 1 box
interlocks(layer1Count, layer2Count) == layer1Count > 0 /\ layer2Count > 0

checkPalletFit(boxDims, palletDims) ==
  LET boxL == boxDims.L
      boxW == boxDims.W
      palletL == palletDims.L
      palletW == palletDims.W
      layer1Wide == palletW \div boxW
      layer1Long == palletL \div boxL
      layer1Count == layer1Wide * layer1Long
      layer2Wide == palletW \div boxL
      layer2Long == palletL \div boxW
      layer2Count == layer2Wide * layer2Long
      layer1Coverage == Rat(layer1Wide * boxW * layer1Long * boxL, palletL * palletW)
      layer2Coverage == Rat(layer2Wide * boxL * layer2Long * boxW, palletL * palletW)
      avgCoverage == RatMul(RatAdd(layer1Coverage, layer2Coverage), Rat(1, 2))
      canInterlock == interlocks(layer1Count, layer2Count)
  IN  [canInterlock |-> canInterlock,
       layer1Count |-> layer1Count,
       layer2Count |-> layer2Count,
       avgCoverage |-> avgCoverage,
       layer1Coverage |-> layer1Coverage,
       layer2Coverage |-> layer2Coverage]

(***************************************************************************)
(* solver/multiSkuOptimizer: the search for one container size             *)
(***************************************************************************)
\* the slip of a loop that runs one value past maxDim
withinSweepOneMore(x, maxDim) == x <= maxDim + 1

\* the loop test  x <= maxDim
withinSweep(x, maxDim) == x <= maxDim

\* the values a loop  for (x = minDim; x <= maxDim; x += step)  visits (step >= 1)
loopValues(minDim, maxDim, step) ==
  [k \in 1..(IF maxDim >= minDim THEN (maxDim - minDim) \div step + 1 ELSE 0) |->
     minDim + (k - 1) * step]

\* Math.max of two quotients (each argument is evaluated once, as a bound variable)
RatMax(a, b) ==
  CHOOSE m \in {IF IsNaN(x) \/ IsNaN(y) THEN NaN ELSE IF RatLess(x, y) THEN y ELSE x
                  : x \in {a}, y \in {b}} : TRUE

\* Math.max(L/W, W/L, L/H, H/L, W/H, H/W) for positive extents
maxRatio(L, W, H) ==
  RatMax(Rat(L, W), RatMax(Rat(W, L), RatMax(Rat(L, H),
         RatMax(Rat(H, L), RatMax(Rat(W, H), Rat(H, W))))))

\* the slip of a strict comparison with 2.0
reasonableAspectStrict(L, W, H) == RatLess(maxRatio(L, W, H), RatInt(2))

\* maxRatio <= 2.0
reasonableAspect(L, W, H) == RatLeq(maxRatio(L, W, H), RatInt(2))

generateCandidateDimensions(minDim, maxDim, step) ==
  LET values == loopValues(minDim, maxDim, step)
      n == Len(values)
      \* the three nested loops, L outermost and H innermost
      visited == [i \in 1..(n * n * n) |->
                    [L |-> values[((i - 1) \div (n * n)) + 1],
                     W |-> values[(((i - 1) \div n) % n) + 1],
                     H |-> values[((i - 1) % n) + 1]]]
  IN  SelectSeq(visited, LAMBDA c : reasonableAspect(c.L, c.W, c.H))

\* reduce((sum, r) => sum + r, 0)
RECURSIVE RatSum(_)
RatSum(s) ==
  IF s = << >> THEN RatInt(0)
  ELSE RatAdd(RatSum(SubSeq(s, 1, Len(s) - 1)), s[Len(s)])

\* the mean of a list; 0 / 0 is NaN
RatMean(s) == IF s = << >> THEN NaN ELSE RatMul(RatSum(s), Rat(1, Len(s)))

\* the slip of counting 0 for a product without a baseline
baselineRatioZeroDefault(r) ==
  IF r.currentBaseline > 0 THEN Rat(r.count, r.currentBaseline) ELSE RatInt(0)

\* r.currentBaseline > 0 ? r.count / r.currentBaseline : 1.0
baselineRatio(r) ==
  IF r.currentBaseline > 0 THEN Rat(r.count, r.currentBaseline) ELSE RatInt(1)

\* the slip of taking the baseline for a quantity the box must hold
skuResultAtLeastBaseline(product, result) ==
  [fits |-> result.fits /\ result.count >= product.current_baseline,
   count |-> IF result.fits THEN result.count ELSE 0,
   utilization |-> IF result.fits THEN result.utilization ELSE RatInt(0),
   currentBaseline |-> product.current_baseline]

\* one entry of skuResults: what findBestArrangement answered for one product
skuResult(product, result) ==
  [fits |-> result.fits,
   count |-> IF result.fits THEN result.count ELSE 0,
   utilization |-> IF result.fits THEN result.utilization ELSE RatInt(0),
   \* sku.current_baseline || 0
   currentBaseline |-> product.current_baseline]

\* the metrics and the score scoreBoxCandidate derives from skuResults
candidateScore(boxDims, skuResults, palletFit) ==
  LET allFit == \A i \in 1..Len(skuResults) : skuResults[i].fits
      avgUtilization == RatMean([i \in 1..Len(skuResults) |-> skuResults[i].utilization])
      totalVolume == boxDims.L * boxDims.W * boxDims.H
      baselineComparison == [i \in 1..Len(skuResults) |-> baselineRatio(skuResults[i])]
      avgBaselineRatio == RatMean(baselineComparison)
      base == RatAdd(RatSub(RatMul(avgUtilization, RatInt(500)), Rat(totalVolume, 10)),
                     RatMul(avgBaselineRatio, RatInt(300)))
      score == IF palletFit.canInterlock
               THEN RatAdd(RatAdd(base, RatInt(200)), RatMul(palletFit.avgCoverage, RatInt(300)))
               ELSE base
  IN  IF ~allFit
      THEN [score |-> RatInt(-1000), spread |-> skuResults]
      ELSE [score |-> score, allFit |-> allFit, avgUtilization |-> avgUtilization,
            totalVolume |-> totalVolume, avgBaselineRatio |-> avgBaselineRatio,
            palletFit |-> palletFit, skuResults |-> skuResults]

\* The objects of a configuration as the search holds them: config refers to its
\* masterpack object; an object spread makes a new object with the same field values.
ConfigObjects(cfg) ==
  [config |-> [masterpack |-> "masterpack", solver |-> cfg.solver, pallet |-> cfg.pallet],
   masterpack |-> cfg.masterpack]

\* the configuration read through the object named ref
ConfigAt(objects, ref) ==
  [masterpack |-> objects[objects[ref].masterpack],
   solver |-> objects[ref].solver,
   pallet |-> objects[ref].pallet]

\* the slip of a shallow copy, testConfig = { ...config }, followed by
\* testConfig.masterpack.external = boxDims
withTestConfigShallow(objects, boxDims) ==
  [config |-> objects.config,
   masterpack |-> [objects.masterpack EXCEPT !.external = boxDims],
   testConfig |-> objects.config,
   testMasterpack |-> objects.masterpack]

\* testConfig = { ...config, masterpack: { ...config.masterpack, external: boxDims } }
withTestConfig(objects, boxDims) ==
  [config |-> objects.config,
   masterpack |-> objects.masterpack,
   testConfig |-> [objects.config EXCEPT !.masterpack = "testMasterpack"],
   testMasterpack |-> [objects[objects.config.masterpack] EXCEPT !.external = boxDims]]

\* the caller's objects once scoreBoxCandidate has returned for each candidate in turn
RECURSIVE objectsAfterScoring(_, _)
objectsAfterScoring(objects, candidates) ==
  IF candidates = << >> THEN objects
  ELSE CHOOSE after \in
         {objectsAfterScoring([config |-> scored.config, masterpack |-> scored.masterpack], rest)
            : scored \in {withTestConfig(objects, Head(candidates))},
              rest \in {Tail(candidates)}} : TRUE

\* config as the caller of findOptimalMasterpack finds it afterwards
configAfterSearch(cfg, opts) ==
  ConfigAt(objectsAfterScoring(ConfigObjects(cfg),
                               generateCandidateDimensions(opts.minDim, opts.maxDim, opts.step)),
           "config")

scoreBoxCandidate(boxDims, skuList, cfg, palletFit) ==
  candidateScore(boxDims,
                 [i \in 1..Len(skuList) |->
                    skuResult(skuList[i],
                              findBestArrangement(
                                skuList[i],
                                ConfigAt(withTestConfig(ConfigObjects(cfg), boxDims),
                                         "testConfig")))],
                 palletFit)

\* candidates.map(dims => ({ dims, ...scoreBoxCandidate(dims, skus, config, palletFit) }))
scoreCandidates(candidates, skuList, cfg) ==
  [i \in 1..Len(candidates) |->
     [dims |-> candidates[i]]
       @@ scoreBoxCandidate(candidates[i], skuList, cfg,
                            checkPalletFit(candidates[i], cfg.pallet))]

\* the slip of keeping every candidate above a lower threshold
keepsAboveSentinelFloor(c) == RatLess(RatInt(-2000), c.score)

\* filter(c => c.score > 0)
keepsCandidate(c) == RatLess(RatInt(0), c.score)

\* the slip of slicing four
sliceTopFour(scoredCandidates) ==
  SubSeq(scoredCandidates, 1, IF Len(scoredCandidates) < 4 THEN Len(scoredCandidates) ELSE 4)

\* scoredCandidates.slice(0, 5)
sliceTop(scoredCandidates) ==
  SubSeq(scoredCandidates, 1, IF Len(scoredCandidates) < 5 THEN Len(scoredCandidates) ELSE 5)

Undefined == [isUndefined |-> TRUE]

\* filter(c => c.score > 0) and sort((a, b) => b.score - a.score)
rankCandidates(scored) == SortByScore(SelectSeq(scored, keepsCandidate))

\* the object findOptimalMasterpack returns
topCandidatesOf(candidates, scoredCandidates) ==
  [optimal |-> IF Len(scoredCandidates) > 0 THEN scoredCandidates[1] ELSE Undefined,
   topCandidates |-> sliceTop(scoredCandidates),
   totalTested |-> Len(candidates),
   validCandidates |-> Len(scoredCandidates)]

searchCandidates(candidates, skuList, cfg) ==
  topCandidatesOf(candidates, rankCandidates(scoreCandidates(candidates, skuList, cfg)))

findOptimalMasterpack(skuList, cfg, opts) ==
  searchCandidates(generateCandidateDimensions(opts.minDim, opts.maxDim, opts.step),
                   skuList, cfg)

\* results.filter(...).length
CountWhere(s, Test(_)) == Cardinality({i \in 1..Len(s) : Test(s[i])})

\* one entry of results; the catalog records carry no squish_factor and no box_dims
analysisOf(product, theoretical) ==
  [dims |-> [L |-> product.L, W |-> product.W, H |-> product.H],
   theoretical |-> IF theoretical.fits THEN theoretical.count ELSE 0,
   actual |-> product.current_baseline,
   squishFactor |-> IF product.current_baseline > 0 /\ theoretical.fits
                    THEN Rat(product.current_baseline, theoretical.count)
                    ELSE RatInt(1),
   theoreticalUtil |-> IF theoretical.fits THEN theoretical.utilization ELSE RatInt(0),
   actualUtil |-> IF theoretical.fits /\ product.current_baseline > 0
                  THEN RatMul(Rat(product.current_baseline, theoretical.count),
                              theoretical.utilization)
                  ELSE RatInt(0),
   boxUtilization |-> RatInt(0),
   fits |-> theoretical.fits]

analysisSummary(results) ==
  [totalSkus |-> Len(results),
   avgSquishFactor |-> RatMean([i \in 1..Len(results) |-> results[i].squishFactor]),
   avgTheoreticalUtil |-> RatMean([i \in 1..Len(results) |-> results[i].theoreticalUtil]),
   avgActualUtil |-> RatMean([i \in 1..Len(results) |-> results[i].actualUtil]),
   avgBoxUtilization |-> RatMean([i \in 1..Len(results) |-> results[i].boxUtilization]),
   problematicSkus |->
     CountWhere(results, LAMBDA r : \/ RatLess(Rat(12, 10), r.squishFactor)
                                   \/ RatLess(r.squishFactor, Rat(8, 10))),
   underutilizedSkus |->
     CountWhere(results, LAMBDA r : RatLess(r.boxUtilization, Rat(75, 100)))]

\* (theoretical and results are bound once, as the constants they are in the code)
analyzeCurrentMasterpack(skuList, cfg) ==
  CHOOSE analysis \in
    {[results |-> results, summary |-> analysisSummary(results)]
       : results \in
           {[i \in 1..Len(skuList) |->
               CHOOSE entry \in
                 {analysisOf(skuList[i], theoretical)
                    : theoretical \in {findBestArrangement(skuList[i], cfg)}} : TRUE]}}
    : TRUE

(***************************************************************************)
(* algorithms/masterpackOptimizer.js, the first-generation solver          *)
(***************************************************************************)
orientations ==
  << [x |-> "L", y |-> "W", z |-> "H"], [x |-> "L", y |-> "H", z |-> "W"],
     [x |-> "W", y |-> "L", z |-> "H"], [x |-> "W", y |-> "H", z |-> "L"],
     [x |-> "H", y |-> "L", z |-> "W"], [x |-> "H", y |-> "W", z |-> "L"] >>

calculateUnitsPerOrientation(unitDims, internalDims, squishPct) ==
  LET adjustedUnitDims ==
        [L |-> RatMul(RatInt(unitDims.L), RatSub(RatInt(1), squishPct.x)),
         W |-> RatMul(RatInt(unitDims.W), RatSub(RatInt(1), squishPct.y)),
         H |-> RatMul(RatInt(unitDims.H), RatSub(RatInt(1), squishPct.z))]
      nx == FloorDiv(internalDims.L, adjustedUnitDims.L)
      ny == FloorDiv(internalDims.W, adjustedUnitDims.W)
      nz == FloorDiv(internalDims.H, adjustedUnitDims.H)
  IN  IF nx <= 0 \/ ny <= 0 \/ nz <= 0
      THEN [nx |-> 0, ny |-> 0, nz |-> 0, count |-> 0, utilization |-> RatInt(0)]
      ELSE [nx |-> nx, ny |-> ny, nz |-> nz, count |-> nx * ny * nz,
            utilization |->
              RatMul(RatMul(RatInt(nx * ny * nz),
                            RatMul(adjustedUnitDims.L,
                                   RatMul(adjustedUnitDims.W, adjustedUnitDims.H))),
                     Rat(1, internalDims.L * internalDims.W * internalDims.H))]

\* targetMultiples.reduce(... , targetMultiples[0]): the first multiple at the least distance
RECURSIVE closestMultiple(_, _, _, _)
closestMultiple(targetMultiples, i, closest, count) ==
  IF i > Len(targetMultiples) THEN closest
  ELSE LET multiple == targetMultiples[i]
           currentDiff == Abs(multiple - count)
           closestDiff == Abs(closest - count)
       IN  closestMultiple(targetMultiples, i + 1,
                           IF currentDiff < closestDiff THEN multiple ELSE closest, count)

Includes(list, v) == \E i \in 1..Len(list) : list[i] = v

legacyScore(arrangement, targetMultiples) ==
  LET closest == closestMultiple(targetMultiples, 1, targetMultiples[1], arrangement.count)
      multipleScore == RatSub(RatInt(1), Rat(Abs(closest - arrangement.count), closest))
      utilizationScore == arrangement.utilization
      exactMultipleBonus == IF Includes(targetMultiples, arrangement.count)
                            THEN Rat(2, 10) ELSE RatInt(0)
  IN  RatAdd(RatAdd(RatMul(Rat(6, 10), multipleScore), RatMul(Rat(3, 10), utilizationScore)),
             RatMul(Rat(1, 10), exactMultipleBonus))

NoArrangement == [isNull |-> TRUE]

RECURSIVE legacyLoop(_, _, _, _, _, _)
legacyLoop(i, unitDims, internalDims, targetMultiples, bestArrangement, bestScore) ==
  IF i > Len(orientations) THEN bestArrangement
  ELSE LET orientation == orientations[i]
           orientedUnitDims == [L |-> unitDims[orientation.x],
                                W |-> unitDims[orientation.y],
                                H |-> unitDims[orientation.z]]
           squishPct == [x |-> RatInt(0), y |-> RatInt(0), z |-> RatInt(0)]
           arrangement == calculateUnitsPerOrientation(orientedUnitDims, internalDims, squishPct)
       IN  IF arrangement.count <= 0
           THEN legacyLoop(i + 1, unitDims, internalDims, targetMultiples,
                           bestArrangement, bestScore)
           ELSE LET score == legacyScore(arrangement, targetMultiples)
                IN  IF RatLess(bestScore, score)
                    THEN legacyLoop(i + 1, unitDims, internalDims, targetMultiples,
                                    [isNull |-> FALSE, nx |-> arrangement.nx,
                                     ny |-> arrangement.ny, nz |-> arrangement.nz,
                                     count |-> arrangement.count,
                                     utilization |-> arrangement.utilization,
                                     orientation |-> orientation, score |-> score],
                                    score)
                    ELSE legacyLoop(i + 1, unitDims, internalDims, targetMultiples,
                                    bestArrangement, bestScore)

legacyFindBestArrangement(unitDims, masterpackInternalDims, targetMultiples) ==
  legacyLoop(1, unitDims, masterpackInternalDims, targetMultiples, NoArrangement, RatInt(-1))

legacyCalculatePalletStacking(masterpackExternalDims, globalSettings) ==
  LET pallet == globalSettings.pallet
      targetPalletHeight == globalSettings.targetPalletHeight
      L == masterpackExternalDims.L
      W == masterpackExternalDims.W
      H == masterpackExternalDims.H
      casesWide == pallet.width \div W
      casesLong == pallet.length \div L
      overhangWidth == pallet.width - casesWide * W
      overhangLength == pallet.length - casesLong * L
      availableHeight == targetPalletHeight.value - pallet.height
      maxLayers == availableHeight \div H
      actualPalletHeight == pallet.height + maxLayers * H
  IN  [casesWide |-> casesWide,
       casesLong |-> casesLong,
       casesPerLayer |-> casesWide * casesLong,
       maxLayers |-> maxLayers,
       totalCases |-> casesWide * casesLong * maxLayers,
       palletHeight |-> actualPalletHeight,
       overhangWidth |-> overhangWidth,
       overhangLength |-> overhangLength,
       overhangWidthFlag |-> 2 * overhangWidth > 1,
       overhangLengthFlag |-> 2 * overhangLength > 1,
       coverage |-> Rat(casesWide * W * casesLong * L, pallet.width * pallet.length)]

(***************************************************************************)
(* Inputs.  config is the record of data/config.json, sku one record of    *)
(* data/skus.json; call holds the last solver call and what it returned,   *)
(* prev the call before it;                                                *)
(* sweep is the position of the candidate sweep of a search in progress;    *)
(* recentSkus is the recently-viewed list of the App and rendered the value *)
(* of it that the handlers of the last render closed over.                  *)
(***************************************************************************)
VARIABLES sku, config, skus, options, call, prev, sweep, recentSkus, rendered

vars == <<sku, config, skus, options, call, prev, sweep, recentSkus, rendered>>

Dims(L, W, H) == [L |-> L, W |-> W, H |-> H]
NoSquish == [x |-> RatInt(0), y |-> RatInt(0), z |-> RatInt(0)]

\* compression allowances, each in [0, 1)
SquishAllowances ==
  {NoSquish,
   [x |-> Rat(1, 2), y |-> RatInt(0), z |-> RatInt(0)],
   [x |-> RatInt(0), y |-> RatInt(0), z |-> Rat(1, 4)],
   [x |-> Rat(1, 4), y |-> Rat(1, 4), z |-> Rat(1, 4)]}

PreferMultiples == {Number(2), Number(6)}

StandardPallet == [L |-> 48, W |-> 40, H |-> 6]

Config(external, wall, squish, prefer, pallet, overhang) ==
  [masterpack |-> [external |-> external, wall_thickness_in |-> wall, tare_lb |-> 2],
   solver |-> [squish_pct |-> squish, prefer_multiples_of |-> prefer,
               max_overhang_in |-> overhang],
   pallet |-> pallet]

Sku(L, W, H) == [L |-> L, W |-> W, H |-> H, oz |-> 16]

\* the worked examples: 6x4x3 in 24x16x12 (preferring 24, 12, or given the list
\* [24, 12]), 20x20x20 and 1x1x30 in 18x18x18, 1x1x1 in 6x6x6
ScenarioPacks ==
  {[sku |-> Sku(6, 4, 3), config |-> Config(Dims(24, 16, 12), 0, NoSquish, p, StandardPallet, 0)]
     : p \in {Number(24), Number(12), Array(<<24, 12>>)}}
  \cup {[sku |-> Sku(20, 20, 20),
         config |-> Config(Dims(18, 18, 18), 0, NoSquish, Number(6), StandardPallet, 0)],
        [sku |-> Sku(1, 1, 30),
         config |-> Config(Dims(18, 18, 18), 0, NoSquish, Number(6), StandardPallet, 0)],
        [sku |-> Sku(1, 1, 1),
         config |-> Config(Dims(6, 6, 6), 0, NoSquish, Number(6), StandardPallet, 0)]}

BoundedPacks ==
  {[sku |-> Sku(uL, uW, uH),
    config |-> Config(Dims(eL, eW, eH), wall, squish, prefer, StandardPallet, 0)]
     : uL \in 1..MaxUnit, uW \in 1..MaxUnit, uH \in 1..MaxUnit,
       eL \in 1..MaxExt, eW \in 1..MaxExt, eH \in 1..MaxExt,
       wall \in 0..MaxWall, squish \in SquishAllowances, prefer \in PreferMultiples}

\* the worked examples: case 20x15x14 on the 48x40 pallet, case 2x3 on a 4x11 footprint
ScenarioPallets ==
  {[sku |-> Sku(1, 1, 1),
    config |-> Config(Dims(20, 15, 14), 0, NoSquish, Number(6), StandardPallet, 0)]}
  \cup {[sku |-> Sku(1, 1, 1),
         config |-> Config(Dims(2, 3, 1), 0, NoSquish, Number(6), [L |-> 4, W |-> 11, H |-> 0], m)]
          : m \in 0..MaxOverhang}

BoundedPallets ==
  {[sku |-> Sku(1, 1, 1),
    config |-> Config(Dims(cL, cW, cH), 0, NoSquish, Number(6), [L |-> pL, W |-> pW, H |-> pH], m)]
     : cL \in 1..MaxCase, cW \in 1..MaxCase, cH \in 1..MaxCaseH,
       pL \in 1..MaxPallet, pW \in 1..MaxPallet, pH \in 0..MaxBase,
       m \in 0..MaxOverhang}

TargetMultiplesLists == {<<48, 42, 36, 30, 24, 20, 18>>, <<24, 12>>}

\* findOptimalMasterpack: minDim = 12, maxDim = 24, step = 1
DefaultOptions == [minDim |-> 12, maxDim |-> 24, step |-> 1]

\* a record of the catalog; current_baseline 0 stands for a product without one
CatalogSku(L, W, H, baseline) ==
  [L |-> L, W |-> W, H |-> H, oz |-> 16, current_baseline |-> baseline]

CatalogUnits == {CatalogSku(1, 1, 1, 0), CatalogSku(1, 2, 2, 1)}

\* the handlers return early on an empty catalog (!skus.length)
Catalogs == UNION {[1..n -> CatalogUnits] : n \in 1..MaxCatalog}

SmallPallet == [L |-> 2, W |-> 2, H |-> 0]

BoundedSearches ==
  {[skus |-> catalog,
    config |-> Config(Dims(24, 16, 12), 0, NoSquish, Number(6), pallet, 0),
    options |-> [minDim |-> lo, maxDim |-> hi, step |-> step]]
     : catalog \in Catalogs, pallet \in {StandardPallet, SmallPallet},
       lo \in 1..2, hi \in 0..MaxSweep, step \in 1..2}

\* the worked examples: two products, one of which fits no box of the sweep 14..16;
\* a 13-inch cube swept over {12, 24} on a pallet no 24-inch box fits; a 13-inch cube
\* in the 22-inch box, the largest of the sweep 14..22 of handleOptimize; a 9-inch
\* cube in the 16-inch box on the standard pallet and on one the box does not fit
ScenarioSearches ==
  {[skus |-> <<CatalogSku(6, 4, 3, 0), CatalogSku(20, 20, 20, 0)>>,
    config |-> Config(Dims(24, 16, 12), 0, NoSquish, Number(6), StandardPallet, 0),
    options |-> [minDim |-> 14, maxDim |-> 16, step |-> 1]],
   [skus |-> <<CatalogSku(13, 13, 13, 0)>>,
    config |-> Config(Dims(24, 16, 12), 0, NoSquish, Number(6), [L |-> 20, W |-> 20, H |-> 6], 0),
    options |-> [minDim |-> 12, maxDim |-> 24, step |-> 12]],
   [skus |-> <<CatalogSku(13, 13, 13, 0)>>,
    config |-> Config(Dims(24, 16, 12), 0, NoSquish, Number(6), StandardPallet, 0),
    options |-> [minDim |-> 22, maxDim |-> 22, step |-> 1]]}
  \cup {[skus |-> <<CatalogSku(9, 9, 9, 0)>>,
         config |-> Config(Dims(24, 16, 12), 0, NoSquish, Number(6), pallet, 0),
         options |-> [minDim |-> 16, maxDim |-> 16, step |-> 1]]
          : pallet \in {StandardPallet, [L |-> 10, W |-> 10, H |-> 6]}}

\* arrangements handed to scoreArrangement
ScoredArrangements ==
  {[count |-> count, utilization |-> utilization, nz |-> nz]
     : count \in 1..MaxCount, utilization \in {Rat(1, 2), RatInt(1)}, nz \in 1..2}

NoCall == [op |-> "none"]

NoSweep == [pc |-> "idle"]

\* selectedSku = null
NoSelection == [isNull |-> TRUE]

\* App: caseDims is config.masterpack.external
caseDims == [L |-> config.masterpack.external.L,
             W |-> config.masterpack.external.W,
             H |-> config.masterpack.external.H]

\* the settings record the first-generation solver reads (productData.global)
globalSettings(targetHeight) ==
  [pallet |-> [width |-> config.pallet.W, length |-> config.pallet.L,
               height |-> config.pallet.H],
   targetPalletHeight |-> [value |-> targetHeight]]

InitPack ==
  /\ \E in \in BoundedPacks \cup ScenarioPacks : sku = in.sku /\ config = in.config
  /\ skus = << >>
  /\ options = DefaultOptions
  /\ call = NoCall
  /\ prev = NoCall
  /\ sweep = NoSweep
  /\ recentSkus = << >>
  /\ rendered = << >>

InitPallet ==
  /\ \E in \in BoundedPallets \cup ScenarioPallets : sku = in.sku /\ config = in.config
  /\ skus = << >>
  /\ options = DefaultOptions
  /\ call = NoCall
  /\ prev = NoCall
  /\ sweep = NoSweep
  /\ recentSkus = << >>
  /\ rendered = << >>

\* a search over a catalog
InitSearch ==
  /\ \E in \in BoundedSearches \cup ScenarioSearches :
       skus = in.skus /\ config = in.config /\ options = in.options
  /\ sku = Sku(1, 1, 1)
  /\ call = NoCall
  /\ prev = NoCall
  /\ sweep = NoSweep
  /\ recentSkus = << >>
  /\ rendered = << >>

\* scoring of arrangements under one configuration
InitScore ==
  /\ sku = Sku(1, 1, 1)
  /\ \E prefer \in PreferMultiples \cup {Number(5)} :
       config = Config(Dims(24, 16, 12), 0, NoSquish, prefer, StandardPallet, 0)
  /\ skus = << >>
  /\ options = DefaultOptions
  /\ call = NoCall
  /\ prev = NoCall
  /\ sweep = NoSweep
  /\ recentSkus = << >>
  /\ rendered = << >>

\* the products the App lists, each with its identifier
AppSku(id) == [sku |-> id, L |-> 1, W |-> 1, H |-> 1, oz |-> 16]

\* the App after the data is loaded, nothing selected
InitApp ==
  /\ sku = NoSelection
  /\ config = Config(Dims(24, 16, 12), 0, NoSquish, Number(6), StandardPallet, 0)
  /\ skus = [id \in 1..MaxSkus |-> AppSku(id)]
  /\ options = DefaultOptions
  /\ call = NoCall
  /\ prev = NoCall
  /\ sweep = NoSweep
  /\ recentSkus = << >>
  /\ rendered = << >>

\* arrangement = findBestArrangement(selectedSku, config)
FindBestArrangement ==
  /\ call = NoCall
  /\ call' = [op |-> "findBestArrangement", result |-> findBestArrangement(sku, config)]
  /\ prev' = call
  /\ UNCHANGED <<sku, config, skus, options, sweep, recentSkus, rendered>>

\* skuArrangement = findBestArrangement(selectedSku, masterpackInternalDims, targetMultiples)
LegacyFindBestArrangement(targetMultiples) ==
  /\ call = NoCall
  /\ call' = [op |-> "legacyFindBestArrangement",
              targetMultiples |-> targetMultiples,
              result |-> legacyFindBestArrangement(
                           Dims(sku.L, sku.W, sku.H),
                           calculateInternalDims(config.masterpack.external,
                                                 config.masterpack.wall_thickness_in),
                           targetMultiples)]
  /\ prev' = call
  /\ UNCHANGED <<sku, config, skus, options, sweep, recentSkus, rendered>>

\* one layer planned with the overhang limit maxOverhang; a second plan for the same
\* footprints may follow the first
ColumnPattern(maxOverhang) ==
  /\ \/ call = NoCall
     \/ call.op = "calculateColumnPattern" /\ prev = NoCall
  /\ call' = [op |-> "calculateColumnPattern", maxOverhang |-> maxOverhang,
              result |-> calculateColumnPattern(caseDims, config.pallet, maxOverhang)]
  /\ prev' = call
  /\ UNCHANGED <<sku, config, skus, options, sweep, recentSkus, rendered>>

\* findBestPalletPattern stacks the allowed patterns in turn for one target height:
\* a stacking under any pattern may follow the column stacking
PalletStacking(targetHeight, pattern) ==
  /\ \/ call = NoCall
     \/ /\ call.op = "calculatePalletStacking" /\ prev = NoCall
        /\ call.pattern = "column" /\ call.targetHeight = targetHeight
  /\ call' = [op |-> "calculatePalletStacking", targetHeight |-> targetHeight,
              pattern |-> pattern,
              result |-> calculatePalletStacking(caseDims, config, targetHeight, pattern)]
  /\ prev' = call
  /\ UNCHANGED <<sku, config, skus, options, sweep, recentSkus, rendered>>

CheckPalletFit ==
  /\ call = NoCall
  /\ call' = [op |-> "checkPalletFit", result |-> checkPalletFit(caseDims, config.pallet)]
  /\ prev' = call
  /\ UNCHANGED <<sku, config, skus, options, sweep, recentSkus, rendered>>

LegacyPalletStacking(targetHeight) ==
  /\ call = NoCall
  /\ call' = [op |-> "legacyCalculatePalletStacking", targetHeight |-> targetHeight,
              result |-> legacyCalculatePalletStacking(caseDims, globalSettings(targetHeight))]
  /\ prev' = call
  /\ UNCHANGED <<sku, config, skus, options, sweep, recentSkus, rendered>>

\* results = findOptimalMasterpack(skus, config, options)
FindOptimalMasterpack ==
  /\ call = NoCall
  /\ call' = [op |-> "findOptimalMasterpack",
              result |-> findOptimalMasterpack(skus, config, options)]
  /\ prev' = call
  /\ config' = configAfterSearch(config, options)
  /\ UNCHANGED <<sku, skus, options, sweep, recentSkus, rendered>>

\* currentAnalysis = analyzeCurrentMasterpack(skus, config), on the inputs as loaded
\* or as a search left them
AnalyzeCurrentMasterpack ==
  /\ call.op \in {"none", "findOptimalMasterpack"} /\ prev = NoCall
  /\ call' = [op |-> "analyzeCurrentMasterpack",
              result |-> analyzeCurrentMasterpack(skus, config)]
  /\ prev' = call
  /\ UNCHANGED <<sku, config, skus, options, sweep, recentSkus, rendered>>

\* one arrangement scored; a second one may follow under the same configuration
ScoreArrangement(arrangement) ==
  /\ \/ call = NoCall
     \/ call.op = "scoreArrangement" /\ prev = NoCall
  /\ call' = [op |-> "scoreArrangement", arrangement |-> arrangement,
              result |-> scoreArrangement(arrangement, config.solver.prefer_multiples_of)]
  /\ prev' = call
  /\ UNCHANGED <<sku, config, skus, options, sweep, recentSkus, rendered>>

\* findOptimalMasterpack step by step: generateCandidateDimensions starts with no
\* candidate and L = minDim
SweepStart ==
  /\ call = NoCall /\ sweep = NoSweep
  /\ sweep' = [pc |-> "L", L |-> options.minDim, W |-> options.minDim, H |-> options.minDim,
               visited |-> 0, candidates |-> << >>]
  /\ UNCHANGED <<sku, config, skus, options, call, prev, recentSkus, rendered>>

\* for (let L = minDim; L <= maxDim; L += step): the test; the W loop starts at minDim
SweepL ==
  /\ sweep.pc = "L"
  /\ sweep' = IF withinSweep(sweep.L, options.maxDim)
              THEN [sweep EXCEPT !.pc = "W", !.W = options.minDim]
              ELSE [sweep EXCEPT !.pc = "done"]
  /\ UNCHANGED <<sku, config, skus, options, call, prev, recentSkus, rendered>>

\* for (let W = minDim; W <= maxDim; W += step): the test; after the last W, L += step
SweepW ==
  /\ sweep.pc = "W"
  /\ sweep' = IF withinSweep(sweep.W, options.maxDim)
              THEN [sweep EXCEPT !.pc = "H", !.H = options.minDim]
              ELSE [sweep EXCEPT !.pc = "L", !.L = @ + options.step]
  /\ UNCHANGED <<sku, config, skus, options, call, prev, recentSkus, rendered>>

\* for (let H = minDim; H <= maxDim; H += step): the test and the body, which pushes
\* the triple when its aspect is reasonable; after the last H, W += step.  visited
\* counts the runs of the body.
SweepH ==
  /\ sweep.pc = "H"
  /\ sweep' = IF withinSweep(sweep.H, options.maxDim)
              THEN [sweep EXCEPT
                      !.visited = @ + 1,
                      !.candidates = IF reasonableAspect(sweep.L, sweep.W, sweep.H)
                                     THEN Append(@, [L |-> sweep.L, W |-> sweep.W, H |-> sweep.H])
                                     ELSE @,
                      !.H = @ + options.step]
              ELSE [sweep EXCEPT !.pc = "W", !.W = @ + options.step]
  /\ UNCHANGED <<sku, config, skus, options, call, prev, recentSkus, rendered>>

\* the candidates are scored, filtered, sorted and the result is returned
SweepReturn ==
  /\ sweep.pc = "done"
  /\ call' = [op |-> "findOptimalMasterpack",
              result |-> searchCandidates(sweep.candidates, skus, config)]
  /\ prev' = call
  /\ sweep' = [sweep EXCEPT !.pc = "returned"]
  /\ config' = ConfigAt(objectsAfterScoring(ConfigObjects(config), sweep.candidates), "config")
  /\ UNCHANGED <<sku, skus, options, recentSkus, rendered>>

\* recentSkus.some(recent => recent.sku === sku.sku), on the list the handler closed over
isRecent(list, product) == \E i \in 1..Len(list) : list[i].sku = product.sku

\* [sku, ...prev].slice(0, 5)
addRecent(product, list) ==
  SubSeq(<<product>> \o list, 1, IF Len(list) + 1 < 5 THEN Len(list) + 1 ELSE 5)

\* handleSkuSelect(sku): setSelectedSku(sku), and the updater prev => [sku, ...prev].slice(0, 5)
\* is queued unless the list of the last render holds the sku
HandleSkuSelect(product) ==
  /\ sku' = product
  /\ recentSkus' = IF ~isRecent(rendered, product)
                   THEN addRecent(product, recentSkus)
                   ELSE recentSkus
  /\ UNCHANGED <<config, skus, options, call, prev, sweep, rendered>>

\* the component re-renders: the handlers now close over the current list
Render ==
  /\ rendered # recentSkus
  /\ rendered' = recentSkus
  /\ UNCHANGED <<sku, config, skus, options, call, prev, sweep, recentSkus>>

NextPack ==
  \/ FindBestArrangement
  \/ \E targetMultiples \in TargetMultiplesLists : LegacyFindBestArrangement(targetMultiples)

NextPallet ==
  \/ \E maxOverhang \in 0..MaxOverhang : ColumnPattern(maxOverhang)
  \/ \E targetHeight \in 0..MaxHeight, pattern \in Patterns :
       PalletStacking(targetHeight, pattern)
  \/ CheckPalletFit
  \/ \E targetHeight \in 0..MaxHeight : LegacyPalletStacking(targetHeight)

NextSearch ==
  \/ FindOptimalMasterpack
  \/ AnalyzeCurrentMasterpack

NextScore == \E arrangement \in ScoredArrangements : ScoreArrangement(arrangement)

\* the loops of the sweep
SweepLoops ==
  \/ SweepStart
  \/ SweepL
  \/ SweepW
  \/ SweepH

NextSweep ==
  \/ SweepLoops
  \/ SweepReturn

NextApp ==
  \/ \E i \in 1..Len(skus) : HandleSkuSelect(skus[i])
  \/ Render

SpecPack == InitPack /\ [][NextPack]_vars

SpecPallet == InitPallet /\ [][NextPallet]_vars

SpecSearch == InitSearch /\ [][NextSearch]_vars

SpecScore == InitScore /\ [][NextScore]_vars

\* the search is a synchronous call: its loops keep running once it has started
SpecSweep == InitSearch /\ [][NextSweep]_vars /\ WF_vars(SweepLoops)

SpecApp == InitApp /\ [][NextApp]_vars

(***************************************************************************)
(* Properties of the inner-pack solver (SpecPack).                         *)
(***************************************************************************)
Internal ==
  calculateInternalDims(config.masterpack.external, config.masterpack.wall_thickness_in)

PositiveInternal == Internal.L > 0 /\ Internal.W > 0 /\ Internal.H > 0

Solved == call.op = "findBestArrangement"

LegacySolved == call.op = "legacyFindBestArrangement"

\* some axis permutation of the raw unit is no larger than the container on every axis
SomePermutationFits ==
  \E i \in 1..Len(rotations) :
    /\ sku[rotations[i][1]] <= Internal.L
    /\ sku[rotations[i][2]] <= Internal.W
    /\ sku[rotations[i][3]] <= Internal.H

PositiveCounts(r) == r.nx >= 1 /\ r.ny >= 1 /\ r.nz >= 1

\* C1: with positive internal dimensions, a unit one of whose six axis permutations
\* is within the container on every axis is reported as fitting, with a count of at
\* least one on every axis.
C1_PermutationFitsImpliesFits ==
  (Solved /\ PositiveInternal /\ SomePermutationFits)
    => (call.result.fits /\ PositiveCounts(call.result))

C1_Witness ==
  /\ Solved /\ PositiveInternal /\ SomePermutationFits
  /\ call.result.fits /\ call.result.count > 1

\* C2: a result with fits = true has a count of at least one on every axis, whatever
\* the external dimensions and the wall thickness.
C2_FitsHasPositiveCounts ==
  (Solved /\ call.result.fits) => PositiveCounts(call.result)

\* C3: a container whose internal dimensions are not strictly positive on every axis
\* never yields a fitting arrangement.
C3_NonPositiveInternalRejected ==
  (Solved /\ ~PositiveInternal) => ~call.result.fits

Scenario6x4x3(prefer) ==
  /\ sku.L = 6 /\ sku.W = 4 /\ sku.H = 3
  /\ Internal = Dims(24, 16, 12)
  /\ config.solver.squish_pct = NoSquish
  /\ config.solver.prefer_multiples_of = prefer

Grid(r, nx, ny, nz) == r.nx = nx /\ r.ny = ny /\ r.nz = nz /\ r.count = nx * ny * nz

NoFit == Solved /\ ~call.result.fits

\* the container axes the unit's smallest extent exceeds
ExceededAxes == {a \in {"L", "W", "H"} : Min3(sku.L, sku.W, sku.H) > Internal[a]}

ListedAxes == {call.result.failingAxis[i] : i \in 1..Len(call.result.failingAxis)}

\* C5 as stated: a no-fit result lists exactly the container axes that the unit's
\* smallest extent exceeds.
C5_FailingAxisExact == NoFit => ListedAxes = ExceededAxes

\* C5 as amended: a no-fit result lists exactly the container axes that the unit's
\* smallest extent exceeds when there is such an axis, and the single entry 'all'
\* when there is none; 20x20x20 in 18x18x18 lists L, W and H.
C5_FailingAxisExactOrAll ==
  /\ NoFit =>
       IF ExceededAxes # {}
       THEN /\ ListedAxes = ExceededAxes
            /\ Len(call.result.failingAxis) = Cardinality(ExceededAxes)
       ELSE call.result.failingAxis = <<"all">>
  /\ (Solved /\ sku.L = 20 /\ sku.W = 20 /\ sku.H = 20 /\ Internal = Dims(18, 18, 18))
       => ~call.result.fits /\ call.result.failingAxis = <<"L", "W", "H">>

C5_Witness ==
  /\ NoFit /\ sku.L = 20 /\ Internal = Dims(18, 18, 18)
  /\ ListedAxes = {"L", "W", "H"}

\* C6: the utilization of every fitting arrangement is greater than 0 and at most 1.
C6_UtilizationInUnitInterval ==
  (Solved /\ call.result.fits)
    => /\ RatLess(RatInt(0), call.result.utilization)
       /\ RatLeq(call.result.utilization, RatInt(1))

\* the extent of the unit along the container axes in the returned rotation, each
\* times (1 - compression of that container axis)
AdjustedExtents(r) ==
  [L |-> RatMul(RatInt(sku[r.rotation[1]]), RatSub(RatInt(1), config.solver.squish_pct.x)),
   W |-> RatMul(RatInt(sku[r.rotation[2]]), RatSub(RatInt(1), config.solver.squish_pct.y)),
   H |-> RatMul(RatInt(sku[r.rotation[3]]), RatSub(RatInt(1), config.solver.squish_pct.z))]

\* n units of the given extent are within the room, n + 1 are not
FitsExactly(n, extent, room) ==
  /\ RatLeq(RatMul(RatInt(n), extent), RatInt(room))
  /\ RatLess(RatInt(room), RatMul(RatInt(n + 1), extent))

\* C24: with positive internal dimensions, the grid of a fitting arrangement is within
\* the container on every axis, nx x adjusted L-extent <= internal L and likewise for
\* ny, W and nz, H, and one more unit on any axis would exceed the internal extent.
C24_GridFitsContainer ==
  (Solved /\ call.result.fits /\ PositiveInternal) =>
    \A adjusted \in {AdjustedExtents(call.result)} :
      /\ call.result.adjustedDims = adjusted
      /\ FitsExactly(call.result.nx, adjusted.L, Internal.L)
      /\ FitsExactly(call.result.ny, adjusted.W, Internal.W)
      /\ FitsExactly(call.result.nz, adjusted.H, Internal.H)

C24_Witness ==
  /\ Solved /\ call.result.fits /\ PositiveInternal
  /\ config.solver.squish_pct.z = Rat(1, 4)
  /\ call.result.count >= 2
  /\ RatLess(RatMul(RatInt(call.result.nz), call.result.adjustedDims.H), RatInt(Internal.H))
  /\ RatMul(RatInt(call.result.nx), call.result.adjustedDims.L) = RatInt(Internal.L)

\* C25: the failingAxis list of a no-fit result is never empty; when the unit's
\* smallest extent exceeds no internal axis extent it is exactly ['all'], as for the
\* unit 1x1x30 in the container 18x18x18.
C25_FailingAxisNeverEmpty ==
  /\ NoFit => /\ Len(call.result.failingAxis) >= 1
              /\ (\A a \in {"L", "W", "H"} : Min3(sku.L, sku.W, sku.H) <= Internal[a])
                   => call.result.failingAxis = <<"all">>
  /\ (Solved /\ sku.L = 1 /\ sku.W = 1 /\ sku.H = 30 /\ Internal = Dims(18, 18, 18))
       => (~call.result.fits /\ call.result.failingAxis = <<"all">>)

C25_Witness ==
  /\ NoFit /\ sku.H = 30 /\ Internal = Dims(18, 18, 18)
  /\ call.result.failingAxis = <<"all">>

(***************************************************************************)
(* Properties of the palletizer and of the interlocking check (SpecPallet). *)
(***************************************************************************)
Planned == call.op = "calculateColumnPattern"

Stacked == call.op = "calculatePalletStacking"

LegacyStacked == call.op = "legacyCalculatePalletStacking"

FitChecked == call.op = "checkPalletFit"

\* the two orientations of the case on the pallet footprint
Unrotated ==
  [wide |-> config.pallet.W \div caseDims.W,
   long |-> config.pallet.L \div caseDims.L,
   overhangW |-> config.pallet.W % caseDims.W,
   overhangL |-> config.pallet.L % caseDims.L]

Rotated ==
  [wide |-> config.pallet.W \div caseDims.L,
   long |-> config.pallet.L \div caseDims.W,
   overhangW |-> config.pallet.W % caseDims.L,
   overhangL |-> config.pallet.L % caseDims.W]

Count(o) == o.wide * o.long

WithinLimit(o, m) == o.overhangW <= m /\ o.overhangL <= m

Plan(r) == [wide |-> r.wide, long |-> r.long,
            overhangW |-> r.overhangW, overhangL |-> r.overhangL]

Flagged(r) == "exceedsOverhang" \in DOMAIN r /\ r.exceedsOverhang

\* C7: an orientation is valid when both overhangs are within maxOverhang; the plan
\* is the valid orientation of the higher count (the unrotated one on a tie), the
\* only valid one, or, when none is valid, the one of the higher count flagged
\* exceedsOverhang; nothing else is flagged.
C7_ColumnPatternSelection ==
  /\ Planned =>
       LET r == call.result
           v1 == WithinLimit(Unrotated, call.maxOverhang)
           v2 == WithinLimit(Rotated, call.maxOverhang)
       IN  /\ (v1 /\ v2) =>
                Plan(r) = (IF Count(Unrotated) >= Count(Rotated) THEN Unrotated ELSE Rotated)
           /\ (v1 /\ ~v2) => Plan(r) = Unrotated
           /\ (~v1 /\ v2) => Plan(r) = Rotated
           /\ (~v1 /\ ~v2) =>
                /\ Plan(r) \in {Unrotated, Rotated}
                /\ Count(r) >= Count(Unrotated) /\ Count(r) >= Count(Rotated)
           /\ Flagged(r) <=> (~v1 /\ ~v2)
  /\ Stacked =>
       (call.result.exceedsOverhang <=>
          /\ ~WithinLimit(Unrotated, config.solver.max_overhang_in)
          /\ ~WithinLimit(Rotated, config.solver.max_overhang_in))

C7_Witness ==
  /\ Planned /\ Flagged(call.result)
  /\ Plan(call.result) = Rotated /\ Count(Rotated) > Count(Unrotated)

TwoPlans ==
  /\ Planned /\ prev.op = "calculateColumnPattern"
  /\ prev.maxOverhang <= call.maxOverhang

\* C8 as stated: for the same footprints, a plan made with a larger maxOverhang holds
\* at least as many containers as one made with a smaller maxOverhang.
C8_MonotoneInOverhang ==
  TwoPlans => Count(call.result) >= Count(prev.result)

\* C8 as amended: for the same footprints, a plan made with a larger maxOverhang holds
\* at least as many containers as one made with a smaller maxOverhang that was not
\* flagged exceedsOverhang.
C8_MonotoneWhenWithinLimit ==
  (TwoPlans /\ ~Flagged(prev.result)) => Count(call.result) >= Count(prev.result)

C8_Witness ==
  /\ TwoPlans /\ ~Flagged(prev.result)
  /\ prev.maxOverhang < call.maxOverhang
  /\ Count(call.result) > Count(prev.result)

\* C9: layer1Count = floor(palletL/boxL) x floor(palletW/boxW), layer2Count =
\* floor(palletL/boxW) x floor(palletW/boxL), canInterlock exactly when both are at
\* least 1, avgCoverage the mean of the two used-area ratios; box 20x15 on pallet
\* 48x40 gives 4 and 6 and interlocks.
C9_CheckPalletFit ==
  FitChecked =>
    LET r == call.result
        palletArea == config.pallet.L * config.pallet.W
        boxArea == caseDims.L * caseDims.W
    IN  /\ r.layer1Count = Count(Unrotated)
        /\ r.layer2Count = Count(Rotated)
        /\ r.canInterlock <=> (r.layer1Count >= 1 /\ r.layer2Count >= 1)
        /\ r.avgCoverage.n * (2 * palletArea)
             = (r.layer1Count * boxArea + r.layer2Count * boxArea) * r.avgCoverage.d
        /\ r.avgCoverage.d > 0
        /\ (caseDims.L = 20 /\ caseDims.W = 15 /\ config.pallet.L = 48 /\ config.pallet.W = 40)
             => (r.layer1Count = 4 /\ r.layer2Count = 6 /\ r.canInterlock)

C9_Witness ==
  /\ FitChecked /\ caseDims.L = 20 /\ caseDims.W = 15
  /\ config.pallet.L = 48 /\ config.pallet.W = 40
  /\ call.result.layer1Count = 4 /\ call.result.layer2Count = 6

\* C10: palletHeight = palletBaseHeight + maxLayers x containerHeight with maxLayers
\* the floor of (targetHeight - palletBaseHeight) / containerHeight, and palletHeight
\* never exceeds targetHeight.
C10_PalletHeightWithinTarget ==
  (Stacked \/ LegacyStacked) =>
    LET r == call.result
        available == call.targetHeight - config.pallet.H
    IN  /\ r.palletHeight = config.pallet.H + r.maxLayers * caseDims.H
        /\ r.maxLayers * caseDims.H <= available
        /\ available < (r.maxLayers + 1) * caseDims.H
        /\ r.palletHeight <= call.targetHeight

C10_Witness ==
  /\ Stacked /\ call.result.maxLayers >= 1
  /\ config.pallet.H > 0
  /\ call.result.palletHeight < call.targetHeight

(***************************************************************************)
(* Properties of the container-size search (SpecSearch).                   *)
(***************************************************************************)
Searched == call.op = "findOptimalMasterpack"

\* the extents the sweep visits
SweepValues ==
  {v \in options.minDim..options.maxDim : (v - options.minDim) % options.step = 0}

\* the triples of swept extents whose largest extent is at most twice the smallest
ReasonableTriples ==
  {c \in [L : SweepValues, W : SweepValues, H : SweepValues] :
     Max3(c.L, c.W, c.H) <= 2 * Min3(c.L, c.W, c.H)}

\* L-major, then W, then H
Before(a, b) ==
  \/ a.L < b.L
  \/ a.L = b.L /\ a.W < b.W
  \/ a.L = b.L /\ a.W = b.W /\ a.H < b.H

\* the locals of findOptimalMasterpack on the inputs of the search (the formulas
\* below bind each to a name once, \A x \in {e}, before quantifying over it)
Candidates == generateCandidateDimensions(options.minDim, options.maxDim, options.step)

ScoredAll == scoreCandidates(Candidates, skus, config)

InOrderOnce(c) == \A i \in 1..(Len(c) - 1) : Before(c[i], c[i + 1])

ExactlyReasonable(c) ==
  /\ {c[i] : i \in 1..Len(c)} = ReasonableTriples
  /\ InOrderOnce(c)
  /\ call.result.totalTested = Len(c)
  /\ call.result.totalTested = Cardinality(ReasonableTriples)

\* C11: the candidates are, once each and in L-major, then W, then H ascending order,
\* exactly the triples of swept extents whose largest pairwise ratio is at most 2,
\* and totalTested is their number.
C11_CandidatesAreReasonableTriples ==
  Searched => \A candidates \in {Candidates} : ExactlyReasonable(candidates)

HasRatioTwo(c) ==
  \E i \in 1..Len(c) : Max3(c[i].L, c[i].W, c[i].H) = 2 * Min3(c[i].L, c[i].W, c[i].H)

C11_Witness ==
  /\ Searched /\ call.result.totalTested > 1
  /\ \E candidates \in {Candidates} : HasRatioTwo(candidates)
  /\ call.result.totalTested < Cardinality(SweepValues) * Cardinality(SweepValues)
                                 * Cardinality(SweepValues)

\* what the inner-pack solver answers for product k in a box of the given external size
ArrangementIn(k, dims) ==
  findBestArrangement(skus[k], [config EXCEPT !.masterpack.external = dims])

AllProductsFit(dims) == \A k \in 1..Len(skus) : ArrangementIn(k, dims).fits

SomeProductFails(dims) == \E k \in 1..Len(skus) : ~ArrangementIn(k, dims).fits

Positive(c) == RatLess(RatInt(0), c.score)


Returned(c) ==
  \/ \E k \in 1..Len(call.result.topCandidates) : call.result.topCandidates[k].dims = c.dims
  \/ call.result.optimal # Undefined /\ call.result.optimal.dims = c.dims

\* not counted in validCandidates: every counted candidate is returned, and c is not
Dropped(c) ==
  /\ call.result.validCandidates = Len(call.result.topCandidates)
  /\ ~Returned(c)

SentinelBelowValid(scored) ==
  \A i \in 1..Len(scored) :
    SomeProductFails(scored[i].dims) =>
      /\ \A j \in 1..Len(scored) :
           AllProductsFit(scored[j].dims) => RatLess(scored[i].score, scored[j].score)
      /\ ~Returned(scored[i])

\* C12: a candidate in which some product does not fit scores strictly below every
\* candidate in which all products fit, and is neither in topCandidates nor optimal.
C12_SentinelBelowEveryValidScore ==
  Searched => \A scored \in {ScoredAll} : SentinelBelowValid(scored)

\* n x (score - bonus) = 500 x sum of utilizations - n x volume / 10 + 300 x sum of ratios
ScoreFrom(c, answers) ==
  LET n == Len(skus)
      utilizations == [k \in 1..n |-> answers[k].utilization]
      ratios == [k \in 1..n |->
                   IF skus[k].current_baseline > 0
                   THEN Rat(answers[k].count, skus[k].current_baseline)
                   ELSE RatInt(1)]
      fit == checkPalletFit(c.dims, config.pallet)
      bonus == IF fit.layer1Count >= 1 /\ fit.layer2Count >= 1
               THEN RatAdd(RatInt(200), RatMul(RatInt(300), fit.avgCoverage))
               ELSE RatInt(0)
      scaled == RatAdd(RatSub(RatMul(RatInt(500), RatSum(utilizations)),
                              Rat(n * c.dims.L * c.dims.W * c.dims.H, 10)),
                       RatMul(RatInt(300), RatSum(ratios)))
  IN  (\A k \in 1..n : answers[k].fits)
        => RatMul(RatInt(n), RatSub(c.score, bonus)) = scaled

ScoreAsStated(c) ==
  \A answers \in {[k \in 1..Len(skus) |-> ArrangementIn(k, c.dims)]} : ScoreFrom(c, answers)

ValidScoresAsStated(scored) == \A i \in 1..Len(scored) : ScoreAsStated(scored[i])

\* C13: with every product fitting, score = 500 x avgUtilization - 0.1 x L x W x H
\* + 300 x avgBaselineRatio, plus 200 + 300 x avgCoverage exactly when the box
\* interlocks; a product without a baseline counts 1 in avgBaselineRatio.
C13_ScoreOfValidCandidate ==
  Searched => \A scored \in {ScoredAll} : ValidScoresAsStated(scored)

BothInterlockingAndNot(scored) ==
  \E i, j \in 1..Len(scored) :
    /\ AllProductsFit(scored[i].dims) /\ AllProductsFit(scored[j].dims)
    /\ scored[i].palletFit.canInterlock
    /\ ~scored[j].palletFit.canInterlock

C13_Witness ==
  /\ Searched /\ Len(skus) = 2
  /\ skus[1].current_baseline = 0 /\ skus[2].current_baseline > 0
  /\ \E scored \in {ScoredAll} : BothInterlockingAndNot(scored)

TopOfSurvivors(scored, top) ==
  LET kept == {i \in 1..Len(scored) : Positive(scored[i])}
      five == IF Cardinality(kept) < 5 THEN Cardinality(kept) ELSE 5
  IN  /\ Len(top) = five
      /\ call.result.validCandidates = Cardinality(kept)
      /\ \A k \in 1..Len(top) : \E i \in kept : top[k] = scored[i]
      /\ \A k, l \in 1..Len(top) : k # l => top[k].dims # top[l].dims
      /\ \A k \in 1..(Len(top) - 1) : ~RatLess(top[k].score, top[k + 1].score)
      /\ \A i \in kept :
           (\A k \in 1..Len(top) : top[k].dims # scored[i].dims)
             => \A k \in 1..Len(top) : RatLeq(scored[i].score, top[k].score)
      /\ call.result.optimal = (IF Len(top) > 0 THEN top[1] ELSE Undefined)

\* C14: topCandidates holds, in non-increasing score order, the min(5, survivors)
\* best-scoring surviving candidates, and optimal is its first element.
C14_TopFiveOfSurvivors ==
  Searched => \A scored \in {ScoredAll} : TopOfSurvivors(scored, call.result.topCandidates)

SurvivorBelowTop(scored) ==
  \E i \in 1..Len(scored) :
    /\ Positive(scored[i])
    /\ RatLess(scored[i].score, call.result.topCandidates[5].score)

C14_Witness ==
  /\ Searched /\ call.result.validCandidates > 5
  /\ Len(call.result.topCandidates) = 5
  /\ RatLess(call.result.topCandidates[2].score, call.result.topCandidates[1].score)
  /\ \E scored \in {ScoredAll} : SurvivorBelowTop(scored)

EmptyWhenNothingFits(scored) ==
  /\ (\A i \in 1..Len(scored) : SomeProductFails(scored[i].dims))
       => /\ call.result.optimal = Undefined
          /\ call.result.topCandidates = << >>
          /\ call.result.validCandidates = 0
  /\ \A i \in 1..Len(scored) : Returned(scored[i]) => AllProductsFit(scored[i].dims)

\* C15: when no candidate of the sweep has every product fitting, optimal is
\* undefined, topCandidates is empty and validCandidates is 0; no returned candidate
\* has a product that does not fit.
C15_EmptyResultWhenNothingFits ==
  Searched => \A scored \in {ScoredAll} : EmptyWhenNothingFits(scored)

OnlySecondFails(scored) ==
  \A i \in 1..Len(scored) :
    ArrangementIn(1, scored[i].dims).fits /\ ~ArrangementIn(2, scored[i].dims).fits

C15_Witness ==
  /\ Searched /\ Len(skus) = 2
  /\ options = [minDim |-> 14, maxDim |-> 16, step |-> 1]
  /\ call.result.totalTested = 27
  /\ \E scored \in {ScoredAll} : OnlySecondFails(scored)
  /\ call.result.optimal = Undefined /\ call.result.validCandidates = 0

DroppedHaveFailingProduct(scored) ==
  \A i \in 1..Len(scored) : Dropped(scored[i]) => SomeProductFails(scored[i].dims)

\* C16: every generated candidate that is not counted in validCandidates has a
\* product for which findBestArrangement answers fits = false in that box.
C16_DroppedCandidateHasFailingProduct ==
  Searched => \A scored \in {ScoredAll} : DroppedHaveFailingProduct(scored)

KeptWithoutInterlock(scored) ==
  \A i \in 1..Len(scored) :
    (/\ AllProductsFit(scored[i].dims)
     /\ ~checkPalletFit(scored[i].dims, config.pallet).canInterlock
     /\ RatLess(RatInt(-200), scored[i].score))
      => ~Dropped(scored[i])

\* C17: a candidate in which every product fits, which does not interlock and would
\* score above 0 with the interlocking bonus of at least 200, is not dropped.
C17_NoInterlockNeverDisqualifies ==
  Searched => \A scored \in {ScoredAll} : KeptWithoutInterlock(scored)

\* baselines the catalog records may carry instead of their own (0: none recorded)
OtherBaselines == {0, 2}

\* the catalogs that differ from skus only in the current_baseline values: every
\* record carries the other baseline
Rebaselined ==
  {[k \in 1..Len(skus) |-> [skus[k] EXCEPT !.current_baseline = b]] : b \in OtherBaselines}

\* the allFit verdict of a scored candidate (the rejected ones carry none)
Verdict(c) == "allFit" \in DOMAIN c /\ c.allFit

Verdicts(candidates, catalog) ==
  [i \in 1..Len(candidates) |->
     Verdict(scoreBoxCandidate(candidates[i], catalog, config,
                               checkPalletFit(candidates[i], config.pallet)))]

\* fits, rotation and counts of an answer of findBestArrangement
Answer(r) == IF r.fits THEN <<TRUE, r.rotation, r.nx, r.ny, r.nz, r.count>> ELSE <<FALSE>>

Answers(catalog) == [k \in 1..Len(catalog) |-> Answer(findBestArrangement(catalog[k], config))]

SameWhateverBaselines(candidates, verdicts, answers) ==
  \A other \in Rebaselined :
    /\ Answers(other) = answers
    /\ Verdicts(candidates, other) = verdicts

\* C22: for the catalogs that differ from the searched one only in the products'
\* current_baseline values (none recorded, or 2, for every product),
\* findBestArrangement answers the same fits, rotation and counts for every product in
\* the configured container, and the search gives every candidate the same allFit
\* verdict.
C22_BaselineIsNoConstraint ==
  Searched =>
    \A candidates \in {Candidates} :
      \A verdicts \in {Verdicts(candidates, skus)} :
        \A answers \in {Answers(skus)} : SameWhateverBaselines(candidates, verdicts, answers)

BothVerdicts(verdicts) ==
  \E i, j \in 1..Len(verdicts) : verdicts[i] /\ ~verdicts[j]

C22_Witness ==
  /\ Searched /\ Len(skus) = 2
  /\ skus[1].current_baseline = 0 /\ skus[2].current_baseline = 1
  /\ \E candidates \in {Candidates} :
       \E verdicts \in {Verdicts(candidates, skus)} : BothVerdicts(verdicts)
  /\ call.result.validCandidates >= 1

Analyzed == call.op = "analyzeCurrentMasterpack"

\* C23: no call of findOptimalMasterpack or analyzeCurrentMasterpack changes a
\* product record of the catalog or the configuration; config.masterpack.external in
\* particular is overridden only in the copy made for each candidate.
C23_InputsUnchanged ==
  [][(call'.op \in {"findOptimalMasterpack", "analyzeCurrentMasterpack"})
       => (skus' = skus /\ config' = config)]_vars

C23_Witness ==
  /\ Analyzed /\ prev.op = "findOptimalMasterpack"
  /\ prev.result.totalTested > 1
  /\ prev.result.optimal # Undefined
  /\ prev.result.optimal.dims # config.masterpack.external
  /\ config.masterpack.external = Dims(24, 16, 12)

(***************************************************************************)
(* Ties between rotations (SpecPack) and the multiples term (SpecScore).   *)
(***************************************************************************)
Tried(i) ==
  tryRotation(Dims(sku.L, sku.W, sku.H), Internal, rotations[i], config.solver.squish_pct)

TriedRotations == [i \in 1..Len(rotations) |-> Tried(i)]

RotationScores(tried) ==
  [i \in 1..Len(tried) |-> scoreArrangement(tried[i], config.solver.prefer_multiples_of)]

\* the fitting entries no other fitting entry outscores
TopOf(tried, scores) ==
  {i \in 1..Len(tried) :
     /\ tried[i].count > 0 /\ ~IsNaN(scores[i])
     /\ \A j \in 1..Len(tried) : tried[j].count > 0 => ~RatLess(scores[i], scores[j])}

TopRotations ==
  UNION {TopOf(tried, scores) : <<tried, scores>> \in {<<TriedRotations, RotationScores(TriedRotations)>>}}

LegacyTried(i) ==
  calculateUnitsPerOrientation(
    [L |-> sku[orientations[i].x], W |-> sku[orientations[i].y], H |-> sku[orientations[i].z]],
    Internal, NoSquish)

LegacyTriedOrientations == [i \in 1..Len(orientations) |-> LegacyTried(i)]

LegacyScores(tried) ==
  [i \in 1..Len(tried) |->
     IF tried[i].count > 0 THEN legacyScore(tried[i], call.targetMultiples) ELSE NaN]

LegacyTopOrientations ==
  UNION {TopOf(tried, scores)
           : <<tried, scores>> \in {<<LegacyTriedOrientations,
                                        LegacyScores(LegacyTriedOrientations)>>}}

First(S) == CHOOSE i \in S : \A j \in S : i <= j

\* the returned entry is the first of the top-scoring ones, when there is one
FirstOfTop(top, order, returned) == top # {} => returned = order[First(top)]

\* C19: among the fitting rotations that share the highest score the solver returns
\* the first in the order LWH, LHW, WLH, WHL, HLW, HWL; so does the first-generation
\* solver among its orientations.
C19_TieGoesToFirstRotation ==
  /\ (Solved /\ call.result.fits)
       => \A top \in {TopRotations} : FirstOfTop(top, rotations, call.result.rotation)
  /\ (LegacySolved /\ ~call.result.isNull)
       => \A top \in {LegacyTopOrientations} :
            FirstOfTop(top, orientations, call.result.orientation)

TieWithAnotherGrid(top) ==
  \E i \in top : rotations[i] # call.result.rotation /\ Tried(i).nx # call.result.nx

C19_Witness ==
  /\ Solved /\ call.result.fits
  /\ call.result.rotation # rotations[1]
  /\ \E top \in {TopRotations} : TieWithAnotherGrid(top)

ArrangementScored == call.op = "scoreArrangement"

PreferredMultiple == config.solver.prefer_multiples_of.value

IsMultiple(count) == count % PreferredMultiple = 0

\* the distance from count to the nearest multiple, above or below
DistanceToNearest(count) ==
  LET below == count % PreferredMultiple
  IN  IF below <= PreferredMultiple - below THEN below ELSE PreferredMultiple - below

\* C20: of two arrangements with equal utilization and nz whose counts are not
\* preferred multiples, the one nearer to a multiple (above or below) scores at least
\* as high; an exact multiple scores higher than an arrangement that is not one.
C20_NearerMultipleScoresHigher ==
  (/\ ArrangementScored /\ prev.op = "scoreArrangement"
   /\ call.arrangement.utilization = prev.arrangement.utilization
   /\ call.arrangement.nz = prev.arrangement.nz)
    => /\ (/\ ~IsMultiple(call.arrangement.count) /\ ~IsMultiple(prev.arrangement.count)
           /\ DistanceToNearest(call.arrangement.count)
                < DistanceToNearest(prev.arrangement.count))
            => RatLeq(prev.result, call.result)
       /\ (IsMultiple(call.arrangement.count) /\ ~IsMultiple(prev.arrangement.count))
            => RatLess(prev.result, call.result)
(***************************************************************************)
(* The placeholder patterns of the palletizer (SpecPallet).                *)
(***************************************************************************)
\* a stacking that follows the column stacking of the same case, pallet and height
AfterColumn ==
  /\ Stacked /\ prev.op = "calculatePalletStacking"
  /\ prev.pattern = "column" /\ prev.targetHeight = call.targetHeight

SameLayout(a, b) ==
  /\ a.casesWide = b.casesWide /\ a.casesLong = b.casesLong
  /\ a.casesPerLayer = b.casesPerLayer
  /\ a.maxLayers = b.maxLayers /\ a.totalCases = b.totalCases
  /\ a.palletHeight = b.palletHeight /\ a.coverage = b.coverage
  /\ a.overhangW = b.overhangW /\ a.overhangL = b.overhangL
  /\ a.exceedsOverhang = b.exceedsOverhang

\* C21: for the same case, pallet configuration and target height, the layout under
\* 'brick', 'pinwheel' or 'swap-40-48' has the casesWide, casesLong, casesPerLayer,
\* maxLayers, totalCases, palletHeight, coverage, overhangs and exceedsOverhang of the
\* layout under 'column'; it carries its own pattern label.
C21_PatternsAliasColumn ==
  (AfterColumn /\ call.pattern \in {"brick", "pinwheel", "swap-40-48"})
    => /\ SameLayout(call.result, prev.result)
       /\ call.result.pattern = call.pattern
       /\ prev.result.pattern = "column"

C21_Witness ==
  /\ AfterColumn /\ call.pattern = "brick"
  /\ Count(Rotated) > Count(Unrotated)
  /\ call.result.casesPerLayer = Count(Rotated)
  /\ call.result.maxLayers >= 1
\* C26: the layout of a stacking has maxLayers >= 0 and totalCases >= 0, also when
\* the target height is below the pallet base height.
C26_LayersNeverNegative ==
  (Stacked \/ LegacyStacked)
    => (call.result.maxLayers >= 0 /\ call.result.totalCases >= 0)

\* C27: when one of the two orientations places at least one container on the pallet,
\* the planned layer holds at least one.
C27_NoEmptyLayerWhenOneFits ==
  (Planned /\ (Count(Unrotated) >= 1 \/ Count(Rotated) >= 1)) => Count(call.result) >= 1

(***************************************************************************)
(* The first-generation solver (SpecPack).                                 *)
(***************************************************************************)
\* an orientation with nx, ny and nz all at least 1
SomeOrientationFits ==
  \E i \in 1..Len(orientations) :
    /\ Internal.L \div sku[orientations[i].x] >= 1
    /\ Internal.W \div sku[orientations[i].y] >= 1
    /\ Internal.H \div sku[orientations[i].z] >= 1

\* C28: the first-generation solver returns an arrangement exactly when one of the
\* six orientations has nx, ny and nz all at least 1, whatever the target multiples.
C28_LegacyFindsWhatFits ==
  LegacySolved => (call.result.isNull <=> ~SomeOrientationFits)
(***************************************************************************)
(* The search step by step (SpecSweep).                                    *)
(***************************************************************************)
Sweeping == sweep # NoSweep

SweepReturned == Sweeping /\ sweep.pc = "returned"

\* generateCandidateDimensions has left its loops
SweepEnded == Sweeping /\ sweep.pc \in {"done", "returned"}

EmptyRange == options.minDim > options.maxDim

\* (floor((maxDim - minDim) / step) + 1)^3
SweepBound ==
  LET n == (options.maxDim - options.minDim) \div options.step + 1
  IN  n * n * n

WithinBound == sweep.visited <= SweepBound /\ Len(sweep.candidates) <= SweepBound

EmptyResult ==
  /\ call.result.totalTested = 0 /\ call.result.validCandidates = 0
  /\ call.result.topCandidates = << >>

\* what the loops collected is what the search reports on
SweepAgrees ==
  SweepReturned
    => /\ sweep.candidates
            = generateCandidateDimensions(options.minDim, options.maxDim, options.step)
       /\ call.result.totalTested = Len(sweep.candidates)

\* C29 as stated: the sweep ends for every range with step > 0, having run the loop
\* body for, and collected, at most (floor((maxDim - minDim) / step) + 1)^3 triples;
\* for an empty range it collects none and the search returns totalTested = 0,
\* validCandidates = 0 and no topCandidates.
C29_SweepTerminatesWithinBound ==
  /\ <>SweepEnded
  /\ [](Sweeping => WithinBound)
  /\ []((Sweeping /\ EmptyRange) => sweep.visited = 0 /\ sweep.candidates = << >>)
  /\ []((SweepReturned /\ EmptyRange) => EmptyResult)
  /\ []SweepAgrees

\* C29 as amended: the bound is that of a non-empty range (for minDim > maxDim + step
\* the expression is negative).
C29_SweepTerminatesWithinBoundOfRange ==
  /\ <>SweepEnded
  /\ []((Sweeping /\ ~EmptyRange) => WithinBound)
  /\ []((Sweeping /\ EmptyRange) => sweep.visited = 0 /\ sweep.candidates = << >>)
  /\ []((SweepReturned /\ EmptyRange) => EmptyResult)
  /\ []SweepAgrees

C29_Witness ==
  /\ SweepReturned /\ ~EmptyRange
  /\ sweep.visited = SweepBound /\ sweep.visited >= 8
  /\ Len(sweep.candidates) < sweep.visited
  /\ call.result.validCandidates >= 1

(***************************************************************************)
(* The recently viewed list (SpecApp).                                     *)
(***************************************************************************)
\* no two entries of the list have the same sku identifier
DistinctSkus(list) ==
  \A i, j \in 1..Len(list) : list[i].sku = list[j].sku => i = j

\* a selection of a product the list already holds
Reselected(product) == HandleSkuSelect(product) /\ isRecent(recentSkus, product)

\* C30: after any sequence of selections, several between two renders included, the
\* recently viewed list holds at most 5 entries, no two with the same sku identifier,
\* and selecting a product the list already holds leaves the list unchanged.
C30_RecentListDistinct ==
  /\ [](Len(recentSkus) <= 5 /\ DistinctSkus(recentSkus))
  /\ [][\A i \in 1..Len(skus) : Reselected(skus[i]) => recentSkus' = recentSkus]_vars
====
